---- MODULE Spec2Model ----
(***************************************************************************)
(* Model of build_publications.py (jpmattern/bibtex2md): the bibtex entry  *)
(* extractor parse_bibtex_entry and the record builder build_publications. *)
(*                                                                         *)
(* A Python str is a sequence of one-character strings, so that the        *)
(* regular expression, the splits, the strips and the format calls of the  *)
(* source are computed character by character.  A file opened for writing  *)
(* is the sequence of the strings passed to its write() calls.             *)
(***************************************************************************)
EXTENDS Integers, Sequences, FiniteSets, TLC

\* ------------------------------------------------------------------------
\* Python str primitives
\* ------------------------------------------------------------------------

LowerSeq == <<"a","b","c","d","e","f","g","h","i","j","k","l","m",
              "n","o","p","q","r","s","t","u","v","w","x","y","z">>

UpperSeq == <<"A","B","C","D","E","F","G","H","I","J","K","L","M",
              "N","O","P","Q","R","S","T","U","V","W","X","Y","Z">>

DigitSeq == <<"0","1","2","3","4","5","6","7","8","9">>

Range(q) == {q[i] : i \in DOMAIN q}

\* [a-z]
LowerChars == Range(LowerSeq)

\* \w
WordChars == Range(LowerSeq) \cup Range(UpperSeq) \cup Range(DigitSeq) \cup {"_"}

\* \s, and the characters str.strip() removes
SpaceChars == {" ", "\n", "\t", "\r"}

\* the None object; no str is equal to it
None == <<"None">>

\* s[i-1:] in Python terms: the suffix of s starting at position i (1-based)
From(s, i) == SubSeq(s, i, Len(s))

\* the str s occurs in t at position i
OccursAt(t, i, s) == /\ i >= 1
                     /\ i + Len(s) - 1 <= Len(t)
                     /\ SubSeq(t, i, i + Len(s) - 1) = s

\* the first position at or after i at which s occurs in t, 0 if there is none
RECURSIVE FindFrom(_, _, _)
FindFrom(t, s, i) == IF i + Len(s) - 1 > Len(t) THEN 0
                     ELSE IF OccursAt(t, i, s) THEN i
                     ELSE FindFrom(t, s, i + 1)

\* str.find shifted to 1-based positions: first position of s in t, 0 if none
Find(t, s) == FindFrom(t, s, 1)

\* sub in s
Contains(t, s) == Find(t, s) # 0

\* s.startswith(p)
StartsWith(s, p) == OccursAt(s, 1, p)

\* str.split(sep) and re.split of a literal separator
RECURSIVE Split(_, _)
Split(s, sep) == LET i == Find(s, sep)
                 IN  IF i = 0 THEN <<s>>
                     ELSE <<SubSeq(s, 1, i-1)>> \o Split(From(s, i + Len(sep)), sep)

\* sep.join(parts)
RECURSIVE Join(_, _)
Join(sep, parts) == IF parts = <<>> THEN <<>>
                    ELSE IF Len(parts) = 1 THEN parts[1]
                    ELSE parts[1] \o sep \o Join(sep, Tail(parts))

\* reversed(list)
Reversed(q) == [i \in 1..Len(q) |-> q[Len(q) + 1 - i]]

\* str.replace(old, new): every non-overlapping occurrence, left to right
RECURSIVE Replace(_, _, _)
Replace(s, old, new) == LET i == Find(s, old)
                        IN  IF i = 0 THEN s
                            ELSE SubSeq(s, 1, i-1) \o new
                                   \o Replace(From(s, i + Len(old)), old, new)

\* str.strip(chars)
RECURSIVE LStrip(_, _)
LStrip(s, chars) == IF s # <<>> /\ Head(s) \in chars THEN LStrip(Tail(s), chars) ELSE s

RECURSIVE RStrip(_, _)
RStrip(s, chars) == IF s # <<>> /\ s[Len(s)] \in chars
                    THEN RStrip(SubSeq(s, 1, Len(s)-1), chars) ELSE s

Strip(s, chars) == RStrip(LStrip(s, chars), chars)

\* s[1:-1]
DropEnds(s) == SubSeq(s, 2, Len(s) - 1)

\* str.lower() of one character and of a str
LowerChar(c) == IF \E i \in DOMAIN UpperSeq : UpperSeq[i] = c
                THEN LowerSeq[CHOOSE i \in DOMAIN UpperSeq : UpperSeq[i] = c]
                ELSE c

LowerStr(s) == [i \in 1..Len(s) |-> LowerChar(s[i])]

\* str(n) for a natural number n
RECURSIVE StrNat(_)
StrNat(n) == IF n < 10 THEN <<DigitSeq[n + 1]>>
             ELSE StrNat(n \div 10) \o <<DigitSeq[(n % 10) + 1]>>

\* the string is accepted by int() as a decimal natural number
IsNat(s) == s # <<>> /\ \A i \in 1..Len(s) : s[i] \in Range(DigitSeq)

DigitVal(c) == (CHOOSE i \in DOMAIN DigitSeq : DigitSeq[i] = c) - 1

\* int(s) for a digit string
RECURSIVE IntOf(_)
IntOf(s) == IF Len(s) = 1 THEN DigitVal(s[1])
            ELSE 10 * IntOf(SubSeq(s, 1, Len(s)-1)) + DigitVal(s[Len(s)])

\* ------------------------------------------------------------------------
\* The regular expression of parse_bibtex_entry
\*   ^@(?P<type>[a-z]+) *{ *KEY(?P<options>(?: *,\s*\w+ * = *{(?:{[^}]+}|[^{}]+)+})+)
\* ------------------------------------------------------------------------

\* end of a greedy character-class repetition C* started at position i:
\* the first position at or after i whose character is not in C
RECURSIVE SkipWhile(_, _, _)
SkipWhile(s, i, C) == IF i <= Len(s) /\ s[i] \in C THEN SkipWhile(s, i+1, C) ELSE i

\* first position at or after i holding the character c, Len(s)+1 if none
RECURSIVE SkipTo(_, _, _)
SkipTo(s, i, c) == IF i <= Len(s) /\ s[i] # c THEN SkipTo(s, i+1, c) ELSE i

\* first position at or after i holding a brace, Len(s)+1 if none
RECURSIVE SkipToBrace(_, _)
SkipToBrace(s, i) == IF i <= Len(s) /\ s[i] \notin {"{", "}"}
                     THEN SkipToBrace(s, i+1) ELSE i

\* (?:{[^}]+}|[^{}]+)* from position i: the position where the repetition stops
RECURSIVE ValueBody(_, _)
ValueBody(s, i) ==
    IF i > Len(s) THEN i
    ELSE IF s[i] = "{"
         THEN LET j == SkipTo(s, i+1, "}")
              IN  IF j <= Len(s) /\ j > i+1 THEN ValueBody(s, j+1) ELSE i
         ELSE IF s[i] = "}" THEN i
         ELSE ValueBody(s, SkipToBrace(s, i))

\* one group " *,\s*\w+ * = *{(?:{[^}]+}|[^{}]+)+}" at position i:
\* the position after its closing brace, 0 if the group does not match
GroupEnd(s, i) ==
    LET a == SkipWhile(s, i, {" "})
        b == SkipWhile(s, a+1, SpaceChars)
        c == SkipWhile(s, b, WordChars)
        d == SkipWhile(s, c, {" "})
        e == SkipWhile(s, d+1, {" "})
        v == ValueBody(s, e+1)
    IN  IF /\ a <= Len(s) /\ s[a] = ","
           /\ c > b
           /\ d > c
           /\ d <= Len(s) /\ s[d] = "="
           /\ e <= Len(s) /\ s[e] = "{"
           /\ v > e+1
           /\ v <= Len(s) /\ s[v] = "}"
        THEN v + 1
        ELSE 0

\* the greedy repetition of groups from position p: the position after the last one
RECURSIVE OptionsEnd(_, _)
OptionsEnd(s, p) == LET g == GroupEnd(s, p)
                    IN  IF g = 0 THEN p ELSE OptionsEnd(s, g)

\* the key is pasted into the pattern unescaped: "." matches any character but a
\* newline, a word character matches itself
KeyAt(s, b, key) == /\ b + Len(key) - 1 <= Len(s)
                    /\ \A n \in 1..Len(key) :
                         IF key[n] = "." THEN s[b + n - 1] # "\n"
                         ELSE s[b + n - 1] = key[n]

\* ^ under re.MULTILINE
LineStart(s, i) == i = 1 \/ s[i-1] = "\n"

\* positions b at which the key can start for a match that begins at i
KeyStarts(s, i, key) ==
    LET t == SkipWhile(s, i+1, LowerChars)
        a == SkipWhile(s, t, {" "})
        m == SkipWhile(s, a+1, {" "})
    IN  IF /\ LineStart(s, i)
           /\ s[i] = "@"
           /\ t > i+1
           /\ a <= Len(s) /\ s[a] = "{"
        THEN {b \in (a+1)..m : /\ KeyAt(s, b, key)
                               /\ OptionsEnd(s, b + Len(key)) > b + Len(key)}
        ELSE {}

Max(S) == CHOOSE x \in S : \A y \in S : y <= x

Min(S) == CHOOSE x \in S : \A y \in S : x <= y

\* the value of match_bib when re.search returns None
NoMatch == [type |-> None, options |-> None]

\* re.search(pattern, text, flags=re.MULTILINE): None, or the groups of the
\* leftmost match
re_search(s, key) ==
    LET starts == {i \in 1..Len(s) : KeyStarts(s, i, key) # {}}
    IN  IF starts = {} THEN NoMatch
        ELSE LET i == Min(starts)
                 b == Max(KeyStarts(s, i, key))
                 p == b + Len(key)
             IN  [type    |-> SubSeq(s, i+1, SkipWhile(s, i+1, LowerChars) - 1),
                  options |-> SubSeq(s, p, OptionsEnd(s, p) - 1)]

\* ------------------------------------------------------------------------
\* parse_bibtex_entry
\* ------------------------------------------------------------------------

\* the keys of the dicts and the separators of the parser, as Python strings
S ==
    [ type |-> <<"t","y","p","e">>,
      author |-> <<"a","u","t","h","o","r">>,
      and |-> <<"a","n","d">>,
      comma |-> <<",">>,
      space |-> <<" ">>,
      spaces2 |-> <<" "," ">>,
      commaNL |-> <<",","\n">>,
      title |-> <<"t","i","t","l","e">>,
      date |-> <<"d","a","t","e">>,
      authors |-> <<"a","u","t","h","o","r","s">>,
      publication_types |-> <<"p","u","b","l","i","c","a","t","i","o","n","_","t","y","p","e","s">>,
      publication |-> <<"p","u","b","l","i","c","a","t","i","o","n">>,
      publication_short |-> <<"p","u","b","l","i","c","a","t","i","o","n","_","s","h","o","r","t">>,
      abstract |-> <<"a","b","s","t","r","a","c","t">>,
      abstract_short |-> <<"a","b","s","t","r","a","c","t","_","s","h","o","r","t">>,
      featured |-> <<"f","e","a","t","u","r","e","d">>,
      projects |-> <<"p","r","o","j","e","c","t","s">>,
      tags |-> <<"t","a","g","s">>,
      doi |-> <<"d","o","i">>,
      url_pdf |-> <<"u","r","l","_","p","d","f">>,
      math |-> <<"m","a","t","h">>,
      bibtexkey |-> <<"b","i","b","t","e","x","k","e","y">>,
      image |-> <<"i","m","a","g","e">>,
      year |-> <<"y","e","a","r">>,
      month |-> <<"m","o","n","t","h">>,
      day |-> <<"d","a","y">>,
      journal |-> <<"j","o","u","r","n","a","l">>,
      bibtexfile |-> <<"b","i","b","t","e","x","f","i","l","e">>,
      builddir |-> <<"b","u","i","l","d","d","i","r">>,
      defaults |-> <<"d","e","f","a","u","l","t","s">>,
      url_pdf_usedoi |-> <<"u","r","l","_","p","d","f","_","u","s","e","d","o","i">>,
      publications |-> <<"p","u","b","l","i","c","a","t","i","o","n","s">>,
      citebibtexentries |-> <<"c","i","t","e","b","i","b","t","e","x","e","n","t","r","i","e","s">>,
      publicationtype_mapping |-> <<"p","u","b","l","i","c","a","t","i","o","n","t","y","p","e","_","m","a","p","p","i","n","g">>,
      partials |-> <<"p","a","r","t","i","a","l","s">>,
      header |-> <<"h","e","a","d","e","r">>,
      footer |-> <<"f","o","o","t","e","r">>,
      true |-> <<"t","r","u","e">>,
      false |-> <<"f","a","l","s","e">>,
      url_code |-> <<"u","r","l","_","c","o","d","e">> ]

\* the pieces of the format strings and of the file names
F ==
    [ url_ |-> <<"u","r","l","_">>,
      strOpen |-> <<" ","="," ","\"">>,
      strClose |-> <<"\"","\n">>,
      listOpen |-> <<" ","="," ","[","\"">>,
      listClose |-> <<"\"","]","\n">>,
      listSep |-> <<"\"",","," ","\"">>,
      seqOpen |-> <<" ","="," ","[">>,
      seqClose |-> <<"]","\n">>,
      commaSp |-> <<","," ">>,
      quote |-> <<"\"">>,
      escQuote |-> <<"\\","\"">>,
      assign |-> <<" ","="," ">>,
      nl |-> <<"\n">>,
      inOpen |-> <<"i","n"," ","*">>,
      star |-> <<"*">>,
      doiorg |-> <<"h","t","t","p","s",":","/","/","d","o","i",".","o","r","g","/">>,
      escPct |-> <<"{","\\","%","}">>,
      pct |-> <<"%">>,
      at |-> <<"@">>,
      lbrace |-> <<"{">>,
      citeSep |-> <<","," ","\n">>,
      indent |-> <<" "," "," "," ">>,
      eqBrace |-> <<" ","="," ","{">>,
      rbrace |-> <<"}">>,
      citeEnd |-> <<"\n","}","\n">>,
      dash |-> <<"-">>,
      midnight |-> <<"T","0","0",":","0","0",":","0","0">>,
      featured |-> <<"f","e","a","t","u","r","e","d">>,
      dot |-> <<".">>,
      lbracket |-> <<"[">>,
      rbracket |-> <<"]">>,
      apos |-> <<"'">>,
      None |-> <<"N","o","n","e">>,
      slash |-> <<"/">>,
      index_md |-> <<"i","n","d","e","x",".","m","d">>,
      cite_bib |-> <<"c","i","t","e",".","b","i","b">> ]

\* default arguments of parse_bibtex_entry
firstnamefirst == TRUE

typekey == S.type

\* dict[k] = v
Put(d, k, v) == [x \in (DOMAIN d) \cup {k} |-> IF x = k THEN v ELSE d[x]]

\* re.split(' *= *', keyvalue, maxsplit=1): split at the leftmost "=" together
\* with the spaces around it
SplitKeyValue(keyvalue) ==
    LET e == Find(keyvalue, <<"=">>)
    IN  IF e = 0 THEN <<keyvalue>>
        ELSE <<RStrip(SubSeq(keyvalue, 1, e-1), {" "}),
               LStrip(From(keyvalue, e+1), {" "})>>

\* the loop over re.split(',\n', options), started with the dict d
RECURSIVE ParseOptions(_, _)
ParseOptions(d, keyvalues) ==
    IF keyvalues = <<>> THEN d
    ELSE LET tmp == SplitKeyValue(Head(keyvalues))
         IN  ParseOptions(IF Len(tmp) = 1 THEN d
                          ELSE Put(d, Strip(tmp[1], SpaceChars),
                                      DropEnds(Strip(tmp[2], SpaceChars))),
                          Tail(keyvalues))

\* while '  ' in author: author = author.replace('  ', ' ')
RECURSIVE CollapseSpaces(_)
CollapseSpaces(author) == IF Contains(author, S.spaces2)
                          THEN CollapseSpaces(Replace(author, S.spaces2, S.space))
                          ELSE author

\* the body of the loop over the authors
ProcessAuthor(author) ==
    LET a == IF firstnamefirst /\ Contains(author, S.comma)
             THEN Join(S.space, Reversed(Split(author, S.comma)))
             ELSE author
    IN  Strip(CollapseSpaces(a), SpaceChars)

\* the separator the author field is split on
AuthorSep == S.and

\* the list stored under 'author'
ProcessAuthors(raw) ==
    LET names == Split(Strip(raw, {" ", "{", "}"}), AuthorSep)
    IN  [i \in 1..Len(names) |-> ProcessAuthor(names[i])]

\* ------------------------------------------------------------------------
\* Helpers of build_publications
\* ------------------------------------------------------------------------

\* the keys of the configuration, in the order build_publications reads them
\* when the bibtexfile argument is None; 'header' and 'footer' are read
\* from data['partials']
LoadOrder == <<S.bibtexfile, S.builddir, S.defaults, S.url_pdf_usedoi, S.publications,
               S.citebibtexentries, S.publicationtype_mapping, S.partials,
               S.header, S.footer>>

\* data[key] (data['partials'][key] for the two partials) raises KeyError
Missing(d, key) == IF key \in {S.header, S.footer}
                   THEN key \notin DOMAIN d[S.partials]
                   ELSE key \notin DOMAIN d

\* a try block that reads data['bibtexfile'] whether or not the argument is given
KeysReadAll(arg) == LoadOrder

\* the keys the try block reads: data['bibtexfile'] only if the argument is None
KeysRead(arg) == SelectSeq(LoadOrder, LAMBDA k : k # S.bibtexfile \/ arg = None)

\* the key of the first KeyError of the try block, None if it raises none
RECURSIVE FirstMissing(_, _)
FirstMissing(d, keys) == IF keys = <<>> THEN None
                         ELSE IF Missing(d, Head(keys)) THEN Head(keys)
                         ELSE FirstMissing(d, Tail(keys))

\* os.path.join for relative paths
PathJoin(a, b) == a \o F.slash \o b

\* a loop that makes the directories of all publications at its first pass
MakeDirsAll(ds, builddir, pubs, i) ==
    ds \cup {PathJoin(builddir, pubs[j].pubkey) : j \in DOMAIN pubs}

\* os.makedirs(cdir, exist_ok=True) in the loop over the publications pubs,
\* at publication number i, on the set ds of existing directories
MakeDirs(ds, builddir, pubs, i) == ds \cup {PathJoin(builddir, pubs[i].pubkey)}

\* the order in which a publication's table lists its keys: iterating
\* publications[pubkey] yields its keys in this order
KeyOrder == <<S.bibtexkey, S.title, S.date, S.authors, S.publication_types,
              S.publication, S.publication_short, S.abstract, S.abstract_short,
              S.featured, S.projects, S.tags, S.doi, S.url_code, S.url_pdf,
              S.math, S.image>>

\* list(publications[pubkey])
KeysOf(ov) == SelectSeq(KeyOrder, LAMBDA k : k \in DOMAIN ov)

\* the values publication_types can have: an int, held as the list of that
\* one int next to the kind, or a list of ints
PyInt(n) == [kind |-> "int", v |-> <<n>>]

PyList(l) == [kind |-> "list", v |-> l]

\* '{}'.format(v) for a str or None
Format(v) == IF v = None THEN F.None ELSE v

\* {True: 'true', False: 'false'}[b]
BoolStr(b) == IF b THEN S.true ELSE S.false

\* 'KEY = "{}"\n'.format(v)
StrLine(key, v) == key \o F.strOpen \o Format(v) \o F.strClose

\* 'KEY = ["{}"]\n'.format('", "'.join(items))
ListLine(key, items) == key \o F.listOpen \o Join(F.listSep, items) \o F.listClose

\* 'KEY = [{}]\n'.format(', '.join('"{}"'.format(s) for s in items))
SeqLine(key, items) ==
    key \o F.seqOpen
        \o Join(F.commaSp, [i \in 1..Len(items) |-> F.quote \o items[i] \o F.quote])
        \o F.seqClose

\* 'KEY = {}\n'.format({True: 'true', False: 'false'}[b])
BoolLine(key, b) == key \o F.assign \o BoolStr(b) \o F.nl

\* the code of an entry type missing from publicationtype_mapping
Uncategorized == 0

\* the month and the day of an entry that has none
DefaultMonth == 1

DefaultDay == 1

\* the number n written with at least w digits
RECURSIVE Pad(_, _)
Pad(n, w) == LET d == StrNat(n)
             IN  IF Len(d) >= w THEN d ELSE <<"0">> \o Pad(n, w - 1) 

LeapYear(y) == (y % 4 = 0 /\ y % 100 # 0) \/ y % 400 = 0

DaysInMonth(y, m) == IF m \in {4, 6, 9, 11} THEN 30
                     ELSE IF m = 2 THEN (IF LeapYear(y) THEN 29 ELSE 28)
                     ELSE 31

\* datetime.datetime(y, m, d) does not raise ValueError
ValidDate(y, m, d) == y \in 1..9999 /\ m \in 1..12 /\ d \in 1..DaysInMonth(y, m)

\* datetime.datetime(y, m, d).isoformat(timespec='seconds')
IsoFormat(y, m, d) == Pad(y, 4) \o F.dash \o Pad(m, 2) \o F.dash \o Pad(d, 2) \o F.midnight

\* the month names dateutil knows, as their three-letter abbreviations
MonthNames == << <<"j","a","n">>, <<"f","e","b">>, <<"m","a","r">>, <<"a","p","r">>,
                 <<"m","a","y">>, <<"j","u","n">>, <<"j","u","l">>, <<"a","u","g">>,
                 <<"s","e","p">>, <<"o","c","t">>, <<"n","o","v">>, <<"d","e","c">> >>

\* dateutil's parse('{} {} {}'.format(month, day, year)) for a month given by
\* name and a numeric day and year: the date, or None where it raises
DateutilParse(month, day, year) ==
    IF /\ \E n \in DOMAIN MonthNames : MonthNames[n] = LowerStr(month)
       /\ IsNat(day) /\ IsNat(year)
    THEN LET n == CHOOSE n \in DOMAIN MonthNames : MonthNames[n] = LowerStr(month)
         IN  IF ValidDate(IntOf(year), n, IntOf(day))
             THEN IsoFormat(IntOf(year), n, IntOf(day))
             ELSE None
    ELSE None

\* the date derived from the entry bd when the clock reads the year now:
\* the date string, or None where the fallback parser raises
DerivedDate(bd, now) ==
    LET year  == IF S.year  \in DOMAIN bd THEN bd[S.year]  ELSE StrNat(now)
        month == IF S.month \in DOMAIN bd THEN bd[S.month] ELSE StrNat(DefaultMonth)
        day   == IF S.day   \in DOMAIN bd THEN bd[S.day]   ELSE StrNat(DefaultDay)
    IN  IF /\ IsNat(year) /\ IsNat(month) /\ IsNat(day)
           /\ ValidDate(IntOf(year), IntOf(month), IntOf(day))
        THEN IsoFormat(IntOf(year), IntOf(month), IntOf(day))
        ELSE DateutilParse(month, day, year)

\* publication_types can be iterated by the join of the publication_types
\* line: it is a list or a dict, not the int 0 of an unmapped entry type
TypesIterable(ov, bd, mapping) ==
    S.publication_types \in DOMAIN ov \/ bd[S.type] \in DOMAIN mapping

\* [str(i) for i in publication_types]
TypeItems(ov, bd, mapping) ==
    IF S.publication_types \in DOMAIN ov
    THEN IF ov[S.publication_types].kind = "int"
         THEN <<StrNat(ov[S.publication_types].v[1])>>
         ELSE KeysOf(ov)
    ELSE <<StrNat(mapping[bd[S.type]])>>

\* the urls when the test "doi is not None" is left out
UrlItemsAnyDoi(ov, usedoi, d) ==
    LET keys  == SelectSeq(KeysOf(ov), LAMBDA k : StartsWith(k, F.url_))
        given == [i \in 1..Len(keys) |-> <<keys[i], ov[keys[i]]>>]
    IN  IF S.url_pdf \notin DOMAIN ov /\ usedoi
        THEN Append(given, <<S.url_pdf, F.doiorg \o Format(d)>>)
        ELSE given

\* the url lines of a record: the urls dict as the list of its items
UrlItems(ov, usedoi, d) ==
    LET keys  == SelectSeq(KeysOf(ov), LAMBDA k : StartsWith(k, F.url_))
        given == [i \in 1..Len(keys) |-> <<keys[i], ov[keys[i]]>>]
    IN  IF S.url_pdf \notin DOMAIN ov /\ usedoi /\ d # None
        THEN Append(given, <<S.url_pdf, F.doiorg \o Format(d)>>)
        ELSE given

\* str(v) of a value of bibtexdict: a str, or the list stored under 'author'
DictStr(key, v) ==
    IF key = S.author
    THEN F.lbracket
           \o Join(F.commaSp, [i \in 1..Len(v) |-> F.apos \o v[i] \o F.apos])
           \o F.rbracket
    ELSE v

\* the writes of the loop over citebibtexentries
RECURSIVE CiteFields(_, _, _)
CiteFields(keys, bd, first) ==
    IF keys = <<>> THEN <<>>
    ELSE IF Head(keys) \in DOMAIN bd
         THEN (IF first THEN <<>> ELSE <<F.citeSep>>)
                \o <<F.indent \o Head(keys) \o F.eqBrace
                       \o DictStr(Head(keys), bd[Head(keys)]) \o F.rbrace>>
                \o CiteFields(Tail(keys), bd, FALSE)
         ELSE CiteFields(Tail(keys), bd, first)

\* the writes to cite.bib
CiteFile(keys, bd, key) ==
    <<F.at \o bd[S.type] \o F.lbrace \o key \o F.nl>>
      \o CiteFields(keys, bd, TRUE)
      \o <<F.citeEnd>>

\* os.path.splitext(fname)[-1].lower()
Ext(fname) ==
    LET dots == {i \in 1..Len(fname) : fname[i] = "."}
    IN  IF dots = {} THEN <<>>
        ELSE LET p == Max(dots)
             IN  IF p = 1 \/ fname[p-1] = "/" \/ \E i \in p..Len(fname) : fname[i] = "/"
                 THEN <<>>
                 ELSE LowerStr(From(fname, p))

\* ------------------------------------------------------------------------
\* The bibliography file
\* ------------------------------------------------------------------------

\* the text of the fields of an entry: each field is written as
\* SEP NAME = {VALUE}
RECURSIVE FieldsText(_, _)
FieldsText(sep, fields) ==
    IF fields = <<>> THEN <<>>
    ELSE sep \o Head(fields)[1] \o F.eqBrace \o Head(fields)[2] \o F.rbrace
           \o FieldsText(sep, Tail(fields))

\* the text of an entry: LEAD @TYPE{KEY fields newline }
EntryText(e) == e.lead \o F.at \o e.type \o F.lbrace \o e.key
                  \o FieldsText(e.sep, e.fields) \o F.citeEnd

\* f.read(): the text of a file written as the sequence of entries es
RECURSIVE BibText(_)
BibText(es) == IF es = <<>> THEN <<>> ELSE EntryText(Head(es)) \o BibText(Tail(es))

\* ------------------------------------------------------------------------
\* State
\* ------------------------------------------------------------------------

VARIABLES
    data,         \* the dict loaded from the configuration file
    bibtexfile,   \* the bibtexfile argument of build_publications, None if not given
    bibfile,      \* the bibliography file, as the entries its text consists of
    imagefiles,   \* the image files that exist, path |-> content
    pc,           \* the position in the program
    pubidx,       \* the position of pubkey in the loop over publications
    bibtexkey,    \* the key looked up in the bibliography
    match_bib,    \* the result of re.search
    bibtexdict,   \* the dict of the entry
    doi,          \* the resolved doi
    dirs,         \* the directories that exist below builddir
    files,        \* the files written, path |-> the strings written to it
    error         \* the exception that ended the run

vars == <<data, bibtexfile, bibfile, imagefiles, pc, pubidx, bibtexkey, match_bib,
          bibtexdict, doi, dirs, files, error>>

\* the inputs, which the program only reads
inputs == <<data, bibtexfile, bibfile, imagefiles>>

NoError == [kind |-> "none", tag |-> "none", name |-> <<>>]

EmptyDict == [k \in {} |-> <<>>]

\* publications, publications[pubkey] and the paths of the current publication
publications == data[S.publications]

pubkey == publications[pubidx].pubkey

Ov == publications[pubidx].ov

cdir == PathJoin(data[S.builddir], pubkey)

filename_index == PathJoin(cdir, F.index_md)

filename_cite == PathJoin(cdir, F.cite_bib)

\* raise: the exception ends the run
Raise(kind, tag, name) ==
    /\ error' = [kind |-> kind, tag |-> tag, name |-> name]
    /\ pc' = "failed"

\* ------------------------------------------------------------------------
\* parse_bibtex_entry, lines 33-62
\* ------------------------------------------------------------------------

\* lines 33-38: search the entry, KeyError if there is no match
ReSearch ==
    /\ pc = "search"
    /\ match_bib' = re_search(BibText(bibfile), bibtexkey)
    /\ IF match_bib' = NoMatch
       THEN Raise("KeyError", "bibtex", bibtexkey)
       ELSE pc' = "options" /\ error' = error
    /\ UNCHANGED <<inputs, pubidx, bibtexkey, bibtexdict, doi, dirs, files>>

\* lines 40-48: the type and the key-value pairs of the options
ParseKeyValues ==
    /\ pc = "options"
    /\ bibtexdict' = ParseOptions([k \in {typekey} |-> LowerStr(match_bib.type)],
                                  Split(match_bib.options, S.commaNL))
    /\ pc' = "names"
    /\ UNCHANGED <<inputs, pubidx, bibtexkey, match_bib, doi, dirs, files, error>>

\* lines 50-62: the list of authors, and the return
AuthorList ==
    /\ pc = "names"
    /\ bibtexdict' = IF S.author \in DOMAIN bibtexdict
                     THEN Put(bibtexdict, S.author, ProcessAuthors(bibtexdict[S.author]))
                     ELSE bibtexdict
    /\ pc' = "return"
    /\ UNCHANGED <<inputs, pubidx, bibtexkey, match_bib, doi, dirs, files, error>>

\* ------------------------------------------------------------------------
\* build_publications, lines 90-281
\* ------------------------------------------------------------------------

\* lines 90-106: the parameters of the configuration, KeyError for the first
\* key that is missing
LoadParameters ==
    /\ pc = "load"
    /\ LET ke == FirstMissing(data, KeysRead(bibtexfile))
       IN  IF ke # None
           THEN Raise("KeyError", "config", ke) /\ pubidx' = pubidx
           ELSE /\ error' = error
                /\ IF Len(data[S.publications]) = 0
                   THEN pc' = "done" /\ pubidx' = pubidx
                   ELSE pc' = "mkdir" /\ pubidx' = 1
    /\ UNCHANGED <<inputs, bibtexkey, match_bib, bibtexdict, doi, dirs, files>>

\* lines 108-126: the directory of the publication and the key of its entry,
\* up to the call of parse_bibtex_entry
MakeDir ==
    /\ pc = "mkdir"
    /\ dirs' = MakeDirs(dirs, data[S.builddir], publications, pubidx)
    /\ bibtexkey' = IF S.bibtexkey \in DOMAIN Ov THEN Ov[S.bibtexkey] ELSE pubkey
    /\ pc' = "search"
    /\ UNCHANGED <<inputs, pubidx, match_bib, bibtexdict, doi, files, error>>

\* lines 126-133: the entry returned by parse_bibtex_entry is rejected if only
\* the abstract was obtained
CheckEntry ==
    /\ pc = "return"
    /\ IF Cardinality(DOMAIN bibtexdict) = 1 /\ S.abstract \in DOMAIN bibtexdict
       THEN Raise("ValueError", "malformed", bibtexkey)
       ELSE pc' = "open" /\ error' = error
    /\ UNCHANGED <<inputs, pubidx, bibtexkey, match_bib, bibtexdict, doi, dirs, files>>

\* f.write(s) on index.md for each s of the list ws, then the block at next
Write(ws, next) ==
    /\ files' = [files EXCEPT ![filename_index] = @ \o ws]
    /\ pc' = next
    /\ error' = error

\* raise ValueError('Cannot find "NAME" information ...')
RaiseMissing(name) ==
    /\ Raise("ValueError", "missing", name)
    /\ files' = files

\* lines 135-139: open index.md for writing and write the header
OpenIndex ==
    /\ pc = "open"
    /\ files' = Put(files, filename_index, <<data[S.partials][S.header]>>)
    /\ pc' = "title"
    /\ UNCHANGED <<inputs, pubidx, bibtexkey, match_bib, bibtexdict, doi, dirs, error>>

\* lines 141-148
Title ==
    /\ pc = "title"
    /\ IF S.title \in DOMAIN Ov
       THEN Write(<<StrLine(S.title, Ov[S.title])>>, "date")
       ELSE IF S.title \in DOMAIN bibtexdict
            THEN Write(<<StrLine(S.title, Strip(bibtexdict[S.title], {" ", "{", "}"}))>>, "date")
            ELSE RaiseMissing(S.title)
    /\ UNCHANGED <<inputs, pubidx, bibtexkey, match_bib, bibtexdict, doi, dirs>>

\* the years datetime.datetime.now() can be in
Years == {2026}

\* lines 150-161
Date ==
    /\ pc = "date"
    /\ IF S.date \in DOMAIN Ov
       THEN Write(<<StrLine(S.date, Ov[S.date])>>, "authors")
       ELSE \E now \in Years :
              LET date == DerivedDate(bibtexdict, now)
              IN  IF date = None
                  THEN Raise("ValueError", "date", S.date) /\ files' = files
                  ELSE Write(<<StrLine(S.date, date)>>, "authors")
    /\ UNCHANGED <<inputs, pubidx, bibtexkey, match_bib, bibtexdict, doi, dirs>>

\* lines 163-170
Authors ==
    /\ pc = "authors"
    /\ IF S.authors \in DOMAIN Ov
       THEN Write(<<ListLine(S.authors, Ov[S.authors])>>, "types")
       ELSE IF S.author \in DOMAIN bibtexdict
            THEN Write(<<ListLine(S.authors, bibtexdict[S.author])>>, "types")
            ELSE RaiseMissing(S.authors)
    /\ UNCHANGED <<inputs, pubidx, bibtexkey, match_bib, bibtexdict, doi, dirs>>

\* lines 172-182: iterating the int 0 of an unmapped entry type raises
\* TypeError: 'int' object is not iterable
PublicationTypes ==
    /\ pc = "types"
    /\ IF TypesIterable(Ov, bibtexdict, data[S.publicationtype_mapping])
       THEN Write(<<ListLine(S.publication_types,
                             TypeItems(Ov, bibtexdict, data[S.publicationtype_mapping]))>>,
                  "publication")
       ELSE Raise("TypeError", "notiterable", S.publication_types) /\ files' = files
    /\ UNCHANGED <<inputs, pubidx, bibtexkey, match_bib, bibtexdict, doi, dirs>>

\* the line of an optional key of the publication, no line if it is not given
Optional(key) == IF key \in DOMAIN Ov THEN <<StrLine(key, Ov[key])>> ELSE <<>>

\* lines 184-194
Publication ==
    /\ pc = "publication"
    /\ IF S.publication \in DOMAIN Ov
       THEN Write(<<StrLine(S.publication, Ov[S.publication])>>
                    \o Optional(S.publication_short), "abstract")
       ELSE IF S.journal \in DOMAIN bibtexdict
            THEN Write(<<StrLine(S.publication, F.inOpen \o bibtexdict[S.journal] \o F.star)>>
                         \o Optional(S.publication_short), "abstract")
            ELSE RaiseMissing(S.publications)
    /\ UNCHANGED <<inputs, pubidx, bibtexkey, match_bib, bibtexdict, doi, dirs>>

\* lines 196-207
Abstract ==
    /\ pc = "abstract"
    /\ IF S.abstract \in DOMAIN Ov
       THEN Write(<<StrLine(S.abstract, Replace(Ov[S.abstract], F.escPct, F.pct))>>
                    \o Optional(S.abstract_short), "featured")
       ELSE IF S.abstract \in DOMAIN bibtexdict
            THEN Write(<<StrLine(S.abstract,
                                 Replace(Replace(bibtexdict[S.abstract], F.quote, F.escQuote),
                                         F.escPct, F.pct))>>
                         \o Optional(S.abstract_short), "featured")
            ELSE RaiseMissing(S.abstract)
    /\ UNCHANGED <<inputs, pubidx, bibtexkey, match_bib, bibtexdict, doi, dirs>>

\* lines 209-214
Featured ==
    /\ pc = "featured"
    /\ Write(<<BoolLine(S.featured, IF S.featured \in DOMAIN Ov THEN Ov[S.featured]
                                    ELSE data[S.defaults][S.featured])>>, "projects")
    /\ UNCHANGED <<inputs, pubidx, bibtexkey, match_bib, bibtexdict, doi, dirs>>

\* lines 216-221
Projects ==
    /\ pc = "projects"
    /\ Write(<<SeqLine(S.projects, IF S.projects \in DOMAIN Ov THEN Ov[S.projects]
                                   ELSE <<>>)>>, "tags")
    /\ UNCHANGED <<inputs, pubidx, bibtexkey, match_bib, bibtexdict, doi, dirs>>

\* lines 223-228
Tags ==
    /\ pc = "tags"
    /\ Write(<<SeqLine(S.tags, IF S.tags \in DOMAIN Ov THEN Ov[S.tags] ELSE <<>>)>>, "doi")
    /\ UNCHANGED <<inputs, pubidx, bibtexkey, match_bib, bibtexdict, doi, dirs>>

\* lines 230-238
ObtainDoi ==
    /\ pc = "doi"
    /\ IF S.doi \in DOMAIN Ov
       THEN doi' = Ov[S.doi] /\ pc' = "urls" /\ error' = error
       ELSE IF S.doi \in DOMAIN bibtexdict
            THEN doi' = bibtexdict[S.doi] /\ pc' = "urls" /\ error' = error
            ELSE Raise("ValueError", "missing", S.doi) /\ doi' = doi
    /\ UNCHANGED <<inputs, pubidx, bibtexkey, match_bib, bibtexdict, dirs, files>>

\* lines 240-245
Urls ==
    /\ pc = "urls"
    /\ LET urls == UrlItems(Ov, data[S.url_pdf_usedoi], doi)
       IN  Write([i \in 1..Len(urls) |-> StrLine(urls[i][1], urls[i][2])], "writedoi")
    /\ UNCHANGED <<inputs, pubidx, bibtexkey, match_bib, bibtexdict, doi, dirs>>

\* lines 247-248
WriteDoi ==
    /\ pc = "writedoi"
    /\ Write(<<StrLine(S.doi, doi)>>, "math")
    /\ UNCHANGED <<inputs, pubidx, bibtexkey, match_bib, bibtexdict, doi, dirs>>

\* lines 250-255
Math ==
    /\ pc = "math"
    /\ Write(<<BoolLine(S.math, IF S.math \in DOMAIN Ov THEN Ov[S.math]
                                ELSE data[S.defaults][S.math])>>, "footer")
    /\ UNCHANGED <<inputs, pubidx, bibtexkey, match_bib, bibtexdict, doi, dirs>>

\* line 257: the footer, and index.md is closed
Footer ==
    /\ pc = "footer"
    /\ Write(<<data[S.partials][S.footer]>>, "cite")
    /\ UNCHANGED <<inputs, pubidx, bibtexkey, match_bib, bibtexdict, doi, dirs>>

\* lines 259-271: the bibtex file of the "cite" button
WriteCite ==
    /\ pc = "cite"
    /\ files' = Put(files, filename_cite,
                    CiteFile(data[S.citebibtexentries], bibtexdict, bibtexkey))
    /\ pc' = "image"
    /\ UNCHANGED <<inputs, pubidx, bibtexkey, match_bib, bibtexdict, doi, dirs, error>>

\* the loop over publications goes on with the next pubkey, or ends
NextPublication ==
    /\ error' = error
    /\ IF pubidx < Len(publications)
       THEN pc' = "mkdir" /\ pubidx' = pubidx + 1
       ELSE pc' = "done"  /\ pubidx' = pubidx

\* lines 273-281: the image of the publication; copyfile raises
\* FileNotFoundError if the image does not exist
AddImage ==
    /\ pc = "image"
    /\ IF S.image \in DOMAIN Ov
       THEN IF Ov[S.image] \in DOMAIN imagefiles
            THEN /\ files' = Put(files, PathJoin(cdir, F.featured \o Ext(Ov[S.image])),
                                 <<imagefiles[Ov[S.image]]>>)
                 /\ NextPublication
            ELSE Raise("FileNotFoundError", "image", Ov[S.image])
                   /\ files' = files /\ pubidx' = pubidx
       ELSE files' = files /\ NextPublication
    /\ UNCHANGED <<inputs, bibtexkey, match_bib, bibtexdict, doi, dirs>>

\* ------------------------------------------------------------------------
\* Inputs
\* ------------------------------------------------------------------------

\* bounds of the inputs
MaxFields == 2

MaxAuthors == 2

MaxPubs == 3

\* entry types
T ==
    [ article |-> <<"a","r","t","i","c","l","e">>,
      Article |-> <<"A","r","t","i","c","l","e">>,
      misc |-> <<"m","i","s","c">> ]

\* entry keys
K ==
    [ k |-> <<"k">>,
      kk |-> <<"k","k">>,
      kdot |-> <<"k",".">>,
      z |-> <<"z">>,
      other |-> <<"o","t","h","e","r">> ]

\* the separator written before each field of an entry: a comma, a newline
\* and the indentation, or a comma and a space on the same line
SepLine == <<",","\n"," "," ">>

SepSpace == <<","," ">>

\* names and values of the fields of the entries parse_bibtex_entry is applied to
FieldNames == <<S.title, S.year, S.journal, S.month>>

FieldValues == { <<"A">>, <<"{","A","}"," ","b">>, <<"a",",","\n","b">> }

\* the lists of at most n fields, the i-th one named FieldNames[i]
RECURSIVE FieldLists(_)
FieldLists(n) ==
    IF n = 0 THEN {<<>>}
    ELSE FieldLists(n-1)
           \cup {Append(fs, <<FieldNames[Len(fs) + 1], v>>) :
                   fs \in {l \in FieldLists(n-1) : Len(l) = n-1}, v \in FieldValues}

Entry(lead, type, key, sep, fields) ==
    [lead |-> lead, type |-> type, key |-> key, sep |-> sep, fields |-> fields]

\* the entries whose parsing is examined
ParseEntries ==
    {Entry(lead, type, key, sep, fields) :
        lead \in {<<>>, <<" ">>}, type \in {T.article, T.Article}, key \in {K.k, K.kk},
        sep \in {SepLine, SepSpace}, fields \in FieldLists(MaxFields)}

\* a second entry of the file
OtherEntries ==
    {Entry(<<>>, T.misc, key, SepLine, << <<S.title, <<"B">> >> >>) : key \in {K.k, K.kk}}

\* the authors of the entries: a person, and the way the name is written
Persons == { <<<<"D","o","e">>, <<"J","a","n","e">>>>,
             <<<<"L","i">>, <<"B","o">>>>,
             <<<<"B","r","a","n","d">>, <<"A","l">>>> }

Styles == {"Last, First", "First Last", "First  Last"}

\* the name of person p = <<last, first>> as written in style st
NameText(p, st) == CASE st = "Last, First" -> p[1] \o <<","," ">> \o p[2]
                     [] st = "First Last"  -> p[2] \o <<" ">> \o p[1]
                     [] st = "First  Last" -> p[2] \o <<" "," ">> \o p[1]

Names == {NameText(p, st) : p \in Persons, st \in Styles}

\* the lists of 1..n names
RECURSIVE NameLists(_)
NameLists(n) ==
    IF n = 0 THEN {<<>>}
    ELSE {<<nm>> \o l : nm \in Names, l \in {x \in NameLists(n-1) : Len(x) = n-1}}
           \cup (IF n = 1 THEN {} ELSE NameLists(n-1))

\* the author field of the names: the names joined by " and "
AuthorField(names) == Join(<<" ">> \o S.and \o <<" ">>, names)

AuthorEntries ==
    {Entry(<<>>, T.article, K.k, SepLine, << <<S.author, AuthorField(names)>> >>) :
        names \in NameLists(MaxAuthors)}

\* the calls of parse_bibtex_entry: a file and a key
ParseInputs ==
    {<<es, key>> : es \in {<<e>> : e \in ParseEntries \cup AuthorEntries}
                          \cup {<<e, o>> : e \in ParseEntries, o \in OtherEntries},
                   key \in {K.k, K.kk, K.kdot, K.z}}

\* the values of the fields of a full entry
V ==
    [ title |-> <<"{","T","i","}">>,
      author |-> <<"D","o","e",","," ","J","a","n","e"," ","a","n","d"," ","L","i",","," ","B","o">>,
      journal |-> <<"J">>,
      abstract |-> <<"a","\"","b","{","\\","%","}">>,
      doi |-> <<"1","0",".","1","/","x">>,
      year |-> <<"2","0","2","1">> ]

FullFields == << <<S.title, V.title>>, <<S.author, V.author>>, <<S.journal, V.journal>>,
                 <<S.abstract, V.abstract>>, <<S.doi, V.doi>>, <<S.year, V.year>> >>

\* the well-formed entry of type type and key key with the fields of FullFields
\* named in present, followed by the fields more
BibEntry(type, key, present, more) ==
    Entry(<<>>, type, key, SepLine,
          SelectSeq(FullFields, LAMBDA f : f[1] \in present) \o more)

AllFields == {FullFields[i][1] : i \in DOMAIN FullFields}

\* the values a publication gives to its keys
O ==
    [ title |-> <<"O","T">>,
      date |-> <<"2","0","2","0">>,
      authors |-> << <<"A"," ","B">> >>,
      publication |-> <<"O","P">>,
      publication_short |-> <<"P","S">>,
      abstract |-> <<"O","{","\\","%","}">>,
      abstract_short |-> <<"A","S">>,
      projects |-> << <<"p">> >>,
      tags |-> << <<"g">>, <<"h">> >>,
      doi |-> <<"1","0",".","9","/","o">>,
      url_pdf |-> <<"u","/","p">>,
      url_code |-> <<"u","/","c">>,
      image |-> <<"i",".","P","N","G">>,
      noimage |-> <<"m",".","p","n","g">> ]

\* the keys a publication may set, each with the values it is given
OvPool == << <<S.title, O.title>>, <<S.date, O.date>>, <<S.authors, O.authors>>,
             <<S.publication_types, PyInt(7)>>, <<S.publication_types, PyList(<<1, 2>>)>>,
             <<S.publication, O.publication>>, <<S.publication_short, O.publication_short>>,
             <<S.abstract, O.abstract>>, <<S.abstract_short, O.abstract_short>>,
             <<S.featured, TRUE>>, <<S.projects, O.projects>>, <<S.tags, O.tags>>,
             <<S.doi, O.doi>>, <<S.doi, None>>, <<S.url_pdf, O.url_pdf>>,
             <<S.url_code, O.url_code>>, <<S.math, TRUE>>, <<S.image, O.image>>,
             <<S.image, O.noimage>>, <<S.bibtexkey, K.other>> >>

\* the table of the publication that sets the items I of OvPool
OvOf(I) == [k \in {OvPool[i][1] : i \in I} |->
              OvPool[CHOOSE i \in I : OvPool[i][1] = k][2]]

\* sets of items that give a key one value
Consistent(I) == \A i, j \in I : OvPool[i][1] = OvPool[j][1] => i = j

\* the items of the keys ks, the first value of each
ItemsOf(ks) == {i \in DOMAIN OvPool : /\ OvPool[i][1] \in ks
                                       /\ \A j \in 1..(i-1) : OvPool[j][1] # OvPool[i][1]}

\* the keys of a publication for the required fields
RequiredKeys == {S.title, S.authors, S.publication, S.abstract, S.doi}

\* the fields of an entry for the required fields
RequiredFields == {S.title, S.author, S.journal, S.abstract, S.doi}

Pub(key, ov) == [pubkey |-> key, ov |-> ov]

P_1 == <<"p","1">>

\* a complete configuration with the publications pubs
Config(pubs, usedoi) ==
    (S.bibtexfile :> <<"r",".","b","i","b">>)
 @@ (S.builddir :> <<"o","u","t">>)
 @@ (S.defaults :> ((S.featured :> FALSE) @@ (S.math :> FALSE)))
 @@ (S.url_pdf_usedoi :> usedoi)
 @@ (S.publications :> pubs)
 @@ (S.citebibtexentries :> <<S.author, S.title, S.year, S.doi>>)
 @@ (S.publicationtype_mapping :> (T.article :> 2))
 @@ (S.partials :> ((S.header :> <<"+","+","+","\n">>) @@ (S.footer :> <<"-","-","-","\n">>)))

\* the image files that exist
Images == (O.image :> <<"P","N","G">>)

Input(d, arg, es) == [data |-> d, bibtexfile |-> arg, bibfile |-> es]

\* one publication: the required fields, given by the publication, by the
\* entry, by both or by neither
RequiredInputs ==
    {Input(Config(<<Pub(P_1, OvOf(ItemsOf(ks)))>>, TRUE), None,
           <<BibEntry(type, P_1, fs, <<>>)>>) :
        ks \in SUBSET RequiredKeys, fs \in SUBSET RequiredFields,
        type \in {T.article, T.misc}}

\* the sets of at most two items, and the sets that give every key, or every
\* key but one, a value
ItemSets ==
    {J \in {{i, j} : i, j \in DOMAIN OvPool} \cup {{}} : Consistent(J)}
      \cup {J \in {DOMAIN OvPool \ {a, b, c, d} : a, b, c, d \in DOMAIN OvPool} :
              Consistent(J) /\ Cardinality(J) >= Len(KeyOrder) - 1}

\* one publication with a complete entry: at most two keys, or all keys
OverrideInputs ==
    {Input(Config(<<Pub(P_1, OvOf(I))>>, usedoi), None,
           <<BibEntry(T.article, P_1, AllFields, <<>>),
             BibEntry(T.article, K.other, AllFields, << <<S.month, <<"2">>>> >>)>>) :
        I \in ItemSets, usedoi \in BOOLEAN}

\* one publication: the year, the month and the day of the entry
DateInputs ==
    {Input(Config(<<Pub(P_1, OvOf({}))>>, TRUE), None,
           <<BibEntry(T.article, P_1, AllFields \ y, m \o d)>>) :
        y \in {{}, {S.year}},
        m \in {<<>>, << <<S.month, <<"2">>>> >>, << <<S.month, <<"m","a","r">>>> >>,
               << <<S.month, <<"x","x">>>> >>},
        d \in {<<>>, << <<S.day, <<"7">>>> >>}}

\* several publications, each one of: complete, without entry, without doi,
\* of an unmapped type, with a missing image
Profiles == {"ok", "noentry", "nodoi", "unmapped", "noimage"}

PubKey(i) == <<"p">> \o StrNat(i)

ProfilePub(i, p) == Pub(PubKey(i), IF p = "noimage" THEN (S.image :> O.noimage)
                                                     ELSE EmptyDict)

ProfileEntry(i, p) ==
    CASE p = "noentry"  -> <<>>
      [] p = "nodoi"    -> <<BibEntry(T.article, PubKey(i), AllFields \ {S.doi}, <<>>)>>
      [] p = "unmapped" -> <<BibEntry(T.misc, PubKey(i), AllFields, <<>>)>>
      [] OTHER          -> <<BibEntry(T.article, PubKey(i), AllFields, <<>>)>>

RECURSIVE ProfileEntries(_, _)
ProfileEntries(ps, i) == IF i > Len(ps) THEN <<>>
                         ELSE ProfileEntry(i, ps[i]) \o ProfileEntries(ps, i + 1)

RunInputs ==
    {Input(Config([i \in 1..Len(ps) |-> ProfilePub(i, ps[i])], TRUE), None, ProfileEntries(ps, 1)) :
        ps \in UNION {[1..n -> Profiles] : n \in 2..MaxPubs}}

\* a configuration without some of its keys
ConfigInputs ==
    {Input([k \in top |-> IF k = S.partials
                          THEN [j \in part |-> Config(<<>>, TRUE)[S.partials][j]]
                          ELSE Config(<<Pub(P_1, EmptyDict)>>, TRUE)[k]],
           arg, <<BibEntry(T.article, P_1, AllFields, <<>>)>>) :
        top \in SUBSET (DOMAIN Config(<<>>, TRUE)), part \in SUBSET {S.header, S.footer},
        arg \in {None, <<"a",".","b","i","b">>}}

BuildInputs == RequiredInputs \cup OverrideInputs \cup DateInputs \cup RunInputs
                 \cup ConfigInputs

\* ------------------------------------------------------------------------
\* Specifications
\* ------------------------------------------------------------------------

\* a run of build_publications
Init ==
    /\ \E inp \in BuildInputs :
         /\ data = inp.data
         /\ bibtexfile = inp.bibtexfile
         /\ bibfile = inp.bibfile
    /\ imagefiles = Images
    /\ pc = "load"
    /\ pubidx = 0
    /\ bibtexkey = None
    /\ match_bib = NoMatch
    /\ bibtexdict = EmptyDict
    /\ doi = None
    /\ dirs = {}
    /\ files = EmptyDict
    /\ error = NoError

Next ==
    \/ LoadParameters
    \/ MakeDir
    \/ ReSearch
    \/ ParseKeyValues
    \/ AuthorList
    \/ CheckEntry
    \/ OpenIndex
    \/ Title
    \/ Date
    \/ Authors
    \/ PublicationTypes
    \/ Publication
    \/ Abstract
    \/ Featured
    \/ Projects
    \/ Tags
    \/ ObtainDoi
    \/ Urls
    \/ WriteDoi
    \/ Math
    \/ Footer
    \/ WriteCite
    \/ AddImage

Spec == Init /\ [][Next]_vars

\* a call of parse_bibtex_entry
InitParse ==
    /\ \E inp \in ParseInputs :
         /\ bibfile = inp[1]
         /\ bibtexkey = inp[2]
    /\ data = EmptyDict
    /\ bibtexfile = <<"r",".","b","i","b">>
    /\ imagefiles = EmptyDict
    /\ pc = "search"
    /\ pubidx = 0
    /\ match_bib = NoMatch
    /\ bibtexdict = EmptyDict
    /\ doi = None
    /\ dirs = {}
    /\ files = EmptyDict
    /\ error = NoError

NextParse ==
    \/ ReSearch
    \/ ParseKeyValues
    \/ AuthorList

SpecParse == InitParse /\ [][NextParse]_vars

\* ------------------------------------------------------------------------
\* Properties of parse_bibtex_entry, checked under SpecParse
\* ------------------------------------------------------------------------

\* the entries of the file written with the key key
EntriesOf(key) == {i \in DOMAIN bibfile : bibfile[i].key = key}

\* the names of the fields written in entry e
FieldsOf(e) == {e.fields[i][1] : i \in DOMAIN e.fields}

\* C1: for a key that occurs in the file exactly once, the dict returned has
\* exactly the keys 'type' and the names of the fields written in that entry,
\* each field mapped to the value written between its braces; this includes
\* the entries whose fields are separated by a comma and a space.  (The
\* author field, returned as a list, is the subject of C7.)
C1_DictIsEntry ==
    (pc = "return" /\ Cardinality(EntriesOf(bibtexkey)) = 1) =>
        LET e == bibfile[CHOOSE i \in DOMAIN bibfile : bibfile[i].key = bibtexkey]
        IN  S.author \notin FieldsOf(e) =>
              /\ DOMAIN bibtexdict = {S.type} \cup FieldsOf(e)
              /\ \A i \in DOMAIN e.fields : bibtexdict[e.fields[i][1]] = e.fields[i][2]

\* the file has an entry for the key: its marker "@type{key" starts a line,
\* its type is in lower case and at least one field follows the key
Marked(key) ==
    \E i \in DOMAIN bibfile :
        /\ bibfile[i].key = key
        /\ bibfile[i].lead = <<>>
        /\ \A n \in DOMAIN bibfile[i].type : bibfile[i].type[n] \in LowerChars
        /\ bibfile[i].fields # <<>>

\* C6: parse_bibtex_entry raises KeyError exactly when the file has no
\* line-anchored, lower-case entry marker for the requested key that is
\* followed by a field; it never returns a dict for a key that is not in the
\* file.
C6_KeyErrorIffAbsent ==
    pc # "search" => (error.kind = "KeyError" <=> ~Marked(bibtexkey))

\* the person whose name is written as nm, as "First Last"
FirstLast(nm) ==
    LET p == CHOOSE p \in Persons : \E st \in Styles : NameText(p, st) = nm
    IN  p[2] \o <<" ">> \o p[1]

\* C7: an author field of n names joined by " and " is returned as the list of
\* the n names in their order, each as "First Last" with single spaces; no
\* name is cut inside a word.
C7_AuthorsNormalized ==
    (pc = "return" /\ S.author \in DOMAIN bibtexdict) =>
        \A names \in NameLists(MaxAuthors) :
            (\E i \in DOMAIN bibfile :
                bibfile[i].fields = << <<S.author, AuthorField(names)>> >>)
            => bibtexdict[S.author] = [i \in 1..Len(names) |-> FirstLast(names[i])]

\* ------------------------------------------------------------------------
\* Properties of build_publications, checked under Spec
\* ------------------------------------------------------------------------

\* the directory and the files of publication number j
DirOf(j) == PathJoin(data[S.builddir], publications[j].pubkey)

IndexOf(j) == PathJoin(DirOf(j), F.index_md)

CiteOf(j) == PathJoin(DirOf(j), F.cite_bib)

\* the strings written to index.md of publication j
LinesOf(j) == IF IndexOf(j) \in DOMAIN files THEN files[IndexOf(j)] ELSE <<>>

\* index.md of publication j has the line l
HasLine(j, l) == \E n \in DOMAIN LinesOf(j) : LinesOf(j)[n] = l

\* the lines of index.md of publication j that assign the key k
LinesFor(j, k) == {LinesOf(j)[n] : n \in {m \in DOMAIN LinesOf(j) :
                                             StartsWith(LinesOf(j)[m], k \o F.assign)}}

\* the positions after the publication_types block, after the urls block and
\* after the check of the parsed entry, within one publication
AfterTypes == {"publication", "abstract", "featured", "projects", "tags", "doi", "urls",
               "writedoi", "math", "footer", "cite", "image"}

AfterUrls == {"writedoi", "math", "footer", "cite", "image"}

AfterCheck == {"open", "title", "date", "authors", "types"} \cup AfterTypes

\* the run failed in the body of a publication, after its entry was parsed
FailedInRecord == pc = "failed" /\ error.tag \in {"missing", "date", "notiterable", "image"}

\* the line of key k that shows exactly the value v of the publication
ShadowLine(k, v) ==
    IF k \in {S.authors} THEN ListLine(k, v)
    ELSE IF k = S.publication_types
         THEN ListLine(k, [i \in 1..Len(v.v) |-> StrNat(v.v[i])])
    ELSE IF k \in {S.projects, S.tags} THEN SeqLine(k, v)
    ELSE IF k \in {S.featured, S.math} THEN BoolLine(k, v)
    ELSE StrLine(k, v)

\* the keys of a publication that shadow a field of the entry or a default
ShadowKeys == {S.title, S.date, S.authors, S.publication_types, S.publication, S.abstract,
               S.featured, S.projects, S.tags, S.doi, S.url_pdf, S.url_code, S.math}

\* C2: for every key among title, date, authors, publication_types,
\* publication, abstract, featured, projects, tags, doi, url_* and math that a
\* publication sets, the line of that key in index.md shows exactly the value
\* the publication gives (for a list of type codes: exactly those codes),
\* never a value of the entry or of another key.
C2_OverrideShown ==
    pubidx >= 1 =>
        \A j \in 1..pubidx : \A k \in ShadowKeys \cap DOMAIN publications[j].ov :
            \A l \in LinesFor(j, k) : l = ShadowLine(k, publications[j].ov[k])

\* C3: when the publication sets no publication_types and the type of the
\* entry is not in publicationtype_mapping, the record is built and its
\* publication_types line carries the code 0; when the type is in the mapping
\* the line carries the mapped code.
C3_UnmappedIsZero ==
    /\ error.kind # "TypeError"
    /\ (pc \in AfterTypes /\ S.publication_types \notin DOMAIN Ov) =>
          HasLine(pubidx, ListLine(S.publication_types,
              <<StrNat(IF bibtexdict[S.type] \in DOMAIN data[S.publicationtype_mapping]
                       THEN data[S.publicationtype_mapping][bibtexdict[S.type]]
                       ELSE Uncategorized)>>))

\* the required fields: the key of the publication, the field of the entry and
\* the name in the error message
Required == { <<S.title, S.title, S.title>>,
              <<S.authors, S.author, S.authors>>,
              <<S.publication, S.journal, S.publications>>,
              <<S.abstract, S.abstract, S.abstract>>,
              <<S.doi, S.doi, S.doi>> }

\* the required field r is given by the publication or by its entry
Given(r) == r[1] \in DOMAIN Ov \/ r[2] \in DOMAIN bibtexdict

\* C4: when exactly one required field is given neither by the publication nor
\* by its entry, building the publication fails with the missing-field error
\* that names the field; a field that is given by one of the two raises no
\* missing-field error.
C4_MissingFieldError ==
    /\ (pc = "cite" \/ FailedInRecord) =>
          \A r \in Required :
              (~Given(r) /\ \A o \in Required \ {r} : Given(o))
              => (pc = "failed" /\ error.tag = "missing" /\ error.name = r[3])
    /\ (pc = "failed" /\ error.tag = "missing") =>
          \A r \in Required : error.name = r[3] => ~Given(r)

\* C5: an entry of which only the abstract was obtained (the dict holds the
\* type and the abstract) is rejected with the malformed-entry error and no
\* record is written from it; an entry with another field does not raise
\* that error.
C5_AbstractOnlyRejected ==
    /\ (pc \in AfterCheck \/ FailedInRecord) => DOMAIN bibtexdict # {S.type, S.abstract}
    /\ error.tag = "malformed" => DOMAIN bibtexdict = {S.type, S.abstract}

\* the line url_pdf = "https://doi.org/<doi>" of the resolved doi
DoiUrlLine == StrLine(S.url_pdf, F.doiorg \o Format(doi))

\* C8 as stated: index.md has the line url_pdf = "https://doi.org/<doi>"
\* exactly when the publication sets no url_pdf and url_pdf_usedoi is true; a
\* url_pdf set by the publication is written unchanged; without the flag and
\* without url_pdf there is no url_pdf line.
C8_Original ==
    pc \in AfterUrls =>
        /\ HasLine(pubidx, DoiUrlLine)
             <=> (S.url_pdf \notin DOMAIN Ov /\ data[S.url_pdf_usedoi])
        /\ S.url_pdf \in DOMAIN Ov =>
             LinesFor(pubidx, S.url_pdf) = {StrLine(S.url_pdf, Ov[S.url_pdf])}
        /\ (S.url_pdf \notin DOMAIN Ov /\ ~data[S.url_pdf_usedoi]) =>
             LinesFor(pubidx, S.url_pdf) = {}

\* C8 as amended: index.md has the line url_pdf = "https://doi.org/<doi>"
\* exactly when the publication sets no url_pdf, url_pdf_usedoi is true and
\* the resolved doi is not None; a url_pdf set by the publication is written
\* unchanged; in every other case there is no url_pdf line.
C8_DoiUrl ==
    pc \in AfterUrls =>
        /\ HasLine(pubidx, DoiUrlLine)
             <=> (S.url_pdf \notin DOMAIN Ov /\ data[S.url_pdf_usedoi] /\ doi # None)
        /\ S.url_pdf \in DOMAIN Ov =>
             LinesFor(pubidx, S.url_pdf) = {StrLine(S.url_pdf, Ov[S.url_pdf])}
        /\ (S.url_pdf \notin DOMAIN Ov /\ ~(data[S.url_pdf_usedoi] /\ doi # None)) =>
             LinesFor(pubidx, S.url_pdf) = {}

\* a record whose url_pdf line was made from the doi of the entry
C8_Witness ==
    /\ pc = "writedoi"
    /\ S.url_pdf \notin DOMAIN Ov
    /\ S.doi \notin DOMAIN Ov
    /\ HasLine(pubidx, StrLine(S.url_pdf, F.doiorg \o V.doi))

\* publication j has its directory, index.md from header to footer, and cite.bib
Complete(j) ==
    /\ DirOf(j) \in dirs
    /\ IndexOf(j) \in DOMAIN files
    /\ Head(files[IndexOf(j)]) = data[S.partials][S.header]
    /\ files[IndexOf(j)][Len(files[IndexOf(j)])] = data[S.partials][S.footer]
    /\ CiteOf(j) \in DOMAIN files
    /\ files[CiteOf(j)][Len(files[CiteOf(j)])] = F.citeEnd

\* publication j has no directory and no file
Untouched(j) ==
    /\ DirOf(j) \notin dirs
    /\ \A p \in DOMAIN files : ~StartsWith(p, DirOf(j) \o F.slash)

\* C9: the publications are processed one after another in the order of the
\* configuration and the first failure ends the run: every publication before
\* the current one is complete, no later one has a directory or a file, and
\* when the run has failed for a missing entry, a malformed entry or a missing
\* required field, the failing publication has its directory, no cite.bib and
\* no footer in its index.md.
C9_SequentialAbort ==
    /\ error # NoError => pc = "failed"
    /\ pubidx >= 1 =>
          /\ \A j \in 1..(pubidx - 1) : Complete(j)
          /\ pc = "done" => Complete(pubidx)
          /\ \A j \in (pubidx + 1)..Len(publications) : Untouched(j)
    /\ (pc = "failed" /\ error.tag \in {"bibtex", "malformed", "missing"}) =>
          /\ DirOf(pubidx) \in dirs
          /\ CiteOf(pubidx) \notin DOMAIN files
          /\ ~HasLine(pubidx, data[S.partials][S.footer])

\* the run failed for a missing doi at the second of three publications
C9_Witness ==
    /\ pc = "failed"
    /\ error.tag = "missing"
    /\ pubidx = 2
    /\ Len(publications) > 2
    /\ IndexOf(pubidx) \in DOMAIN files

\* the required keys of the configuration
RequiredConfig ==
    {S.builddir, S.defaults, S.url_pdf_usedoi, S.publications, S.citebibtexentries,
     S.publicationtype_mapping, S.header, S.footer}
      \cup (IF bibtexfile = None THEN {S.bibtexfile} ELSE {})

\* the required key k is absent from the configuration
Absent(k) == IF k \in {S.header, S.footer}
             THEN S.partials \notin DOMAIN data \/ k \notin DOMAIN data[S.partials]
             ELSE k \notin DOMAIN data

\* C10: when a required key of the configuration is absent (bibtexfile only if
\* it is not passed as an argument), build_publications fails with the
\* configuration error naming an absent key (partials for its two keys when
\* the whole table is absent), before any directory or file is created; the
\* error is raised for no other configuration.
C10_ConfigChecked ==
    /\ ((\E k \in RequiredConfig : Absent(k)) /\ pc # "load") =>
          /\ pc = "failed"
          /\ error.tag = "config"
          /\ \/ error.name \in RequiredConfig /\ Absent(error.name)
             \/ error.name = S.partials /\ S.partials \notin DOMAIN data
          /\ dirs = {}
          /\ files = EmptyDict
    /\ error.tag = "config" => \E k \in RequiredConfig : Absent(k)

\* the run failed for the missing footer of a configuration that has all
\* other keys
C10_Witness ==
    /\ pc = "failed"
    /\ error.tag = "config"
    /\ error.name = S.footer
    /\ dirs = {}
    /\ files = EmptyDict
====
